---- MODULE Spec2Model ----
(***************************************************************************)
(* Model of the two dictionary agents of the repository:                   *)
(*                                                                         *)
(*   agentv3.py       DictionaryAgent over `data`, seeded with             *)
(*                    BUILT_IN_DICT: define, add, remove, list, suggest    *)
(*   agent_ai_gen.py  DictionaryAgent over `_dict` with a JSON document:   *)
(*                    load, save, lookup, add, remove, list_words          *)
(*                                                                         *)
(* A Python str used as a word is a sequence of character codes, so that   *)
(* str.lower, str.startswith, the ordering of sorted() and the matching of *)
(* difflib are computed and not assumed.  A Python dict is a sequence of    *)
(* [k, v] entries in insertion order (the order dict iteration follows).    *)
(* Definitions are opaque strings.                                         *)
(***************************************************************************)
EXTENDS Integers, Sequences, FiniteSets, TLC

VARIABLES
    data,       \* agentv3.DictionaryAgent.data
    last,       \* the last call on the agentv3 agent: arguments, prior data, outcome
    dict_,      \* agent_ai_gen.DictionaryAgent._dict
    document,   \* what is stored at agent_ai_gen.DictionaryAgent.storage_path
    written,    \* the mapping the latest save() wrote, while the document is still that output
    writable,   \* whether storage_path can be opened for writing
    glast       \* the last call on the agent_ai_gen agent

vars == <<data, last, dict_, document, written, writable, glast>>

----------------------------------------------------------------------------
(* Words, as sequences of character codes *)

w_algorithm == <<97, 108, 103, 111, 114, 105, 116, 104, 109>>
w_binary == <<98, 105, 110, 97, 114, 121>>
w_cache == <<99, 97, 99, 104, 101>>
w_dictionary == <<100, 105, 99, 116, 105, 111, 110, 97, 114, 121>>
w_example == <<101, 120, 97, 109, 112, 108, 101>>
w_function == <<102, 117, 110, 99, 116, 105, 111, 110>>
w_Cache == <<67, 97, 99, 104, 101>>
w_CACHE == <<67, 65, 67, 72, 69>>
w_ca == <<99, 97>>
w_C == <<67>>
w_exampl == <<101, 120, 97, 109, 112, 108>>
w_zzzzz == <<122, 122, 122, 122, 122>>
w_ath == <<97, 116, 104>>
w_ache == <<97, 99, 104, 101>>

Entry(word, definition) == [k |-> word, v |-> definition]

BUILT_IN_DICT ==
    << Entry(w_algorithm, "A step-by-step procedure for calculations or problem-solving."),
       Entry(w_binary, "A system using two states often represented as 0 and 1."),
       Entry(w_cache, "A hardware or software component that stores data so future requests for that data can be served faster."),
       Entry(w_dictionary, "A data structure that maps keys to values; also a reference book of words and meanings."),
       Entry(w_example, "A representative form or pattern used to illustrate a rule."),
       Entry(w_function, "A named section of a program that performs a specific task.") >>

----------------------------------------------------------------------------
(* Bounds and input sets *)

\* the most entries a dictionary holds in the model
MaxKeys == 7

\* words passed to define and remove
Words == {w_cache, w_Cache, w_CACHE, w_ca, w_exampl, w_zzzzz}

\* queries passed to suggest
Queries == {w_ath, w_ache, w_exampl, w_zzzzz}

\* words and definitions passed to add
AddWords == {w_cache, w_Cache, w_ca}
AddDefs == {"d1", "d2"}

\* Optional values: Python's None and a present value
None == [some |-> FALSE, val |-> <<>>]
Some(x) == [some |-> TRUE, val |-> x]

\* prefixes passed to list: None, "", "ca", "C"
Prefixes == {None, Some(<<>>), Some(w_ca), Some(w_C)}

\* values passed as max_results (5 is the default)
MaxResultsValues == {-1, 0, 1, 2, 5}

----------------------------------------------------------------------------
(* Python str *)

Min(a, b) == IF a <= b THEN a ELSE b

\* str.lower() on one ASCII character
LowerChar(c) == IF c >= 65 /\ c <= 90 THEN c + 32 ELSE c

\* str.lower()
Lower(s) == [i \in 1..Len(s) |-> LowerChar(s[i])]

\* str.startswith(prefix)
StartsWith(s, p) == Len(p) <= Len(s) /\ SubSeq(s, 1, Len(p)) = p

\* s < t in Python's ordering of str (code point by code point, a proper prefix first)
StrLess(s, t) ==
    \E i \in 1..(Min(Len(s), Len(t)) + 1) :
        /\ \A j \in 1..(i - 1) : s[j] = t[j]
        /\ \/ i > Len(s) /\ i <= Len(t)
           \/ i <= Len(s) /\ i <= Len(t) /\ s[i] < t[i]

----------------------------------------------------------------------------
(* Python dict as a sequence of entries in insertion order *)

Keys(d) == {d[i].k : i \in 1..Len(d)}

\* list(d.keys())
KeyList(d) == [i \in 1..Len(d) |-> d[i].k]

IndexOf(d, word) == CHOOSE i \in 1..Len(d) : d[i].k = word

\* d.get(word)
DictGet(d, word) == IF word \in Keys(d) THEN Some(d[IndexOf(d, word)].v) ELSE None

\* d[word] = definition: an existing key keeps its position, a new key goes last
DictSet(d, word, definition) ==
    IF word \in Keys(d)
    THEN [d EXCEPT ![IndexOf(d, word)].v = definition]
    ELSE Append(d, Entry(word, definition))

\* del d[word]
DictDel(d, word) ==
    LET i == IndexOf(d, word)
    IN  SubSeq(d, 1, i - 1) \o SubSeq(d, i + 1, Len(d))

\* the mapping a dict denotes (dict equality ignores insertion order)
AsMap(d) == [w \in Keys(d) |-> d[IndexOf(d, w)].v]

----------------------------------------------------------------------------
(* sorted() on a list of distinct str *)

\* insert x into the ascending list s
InsertSorted(s, x) ==
    LET p == Cardinality({i \in 1..Len(s) : StrLess(s[i], x)})
    IN  SubSeq(s, 1, p) \o <<x>> \o SubSeq(s, p + 1, Len(s))

RECURSIVE Sorted(_)
\* sorted(s): ascending in Python's ordering of str
Sorted(s) ==
    IF s = <<>> THEN <<>>
    ELSE InsertSorted(Sorted(SubSeq(s, 1, Len(s) - 1)), s[Len(s)])

----------------------------------------------------------------------------
(* difflib.SequenceMatcher(a = candidate, b = query) and get_close_matches. *)
(* No element is junk: isjunk is None and autojunk needs 200 elements.      *)
(* Indices are Python's: 0-based, the upper end excluded.                   *)
(* A float ratio 2.0*M/T is the pair <<2*M, T>>, compared by cross          *)
(* multiplication; IEEE division is correctly rounded, so for these small   *)
(* operands the float comparisons of the library agree with the exact ones.*)

RECURSIVE MatchLen(_, _, _, _, _, _)
\* length of the common run of a[i:ahi] and b[j:bhi] starting at i and j
MatchLen(a, b, i, j, ahi, bhi) ==
    IF i < ahi /\ j < bhi /\ a[i + 1] = b[j + 1]
    THEN 1 + MatchLen(a, b, i + 1, j + 1, ahi, bhi)
    ELSE 0

\* SequenceMatcher.find_longest_match: <<i, j, k>>, the longest block,
\* the one starting earliest in a and, among those, earliest in b
find_longest_match(a, b, alo, ahi, blo, bhi) ==
    LET blocks == {<<i, j, MatchLen(a, b, i, j, ahi, bhi)>> :
                        i \in alo..(ahi - 1), j \in blo..(bhi - 1)}
        hits == {m \in blocks : m[3] > 0}
    IN  IF hits = {} THEN <<alo, blo, 0>>
        ELSE CHOOSE m \in hits :
                \A q \in hits :
                    \/ m[3] > q[3]
                    \/ m[3] = q[3] /\ m[1] < q[1]
                    \/ m[3] = q[3] /\ m[1] = q[1] /\ m[2] <= q[2]

RECURSIVE Matches(_, _, _, _, _, _)
\* the total size of SequenceMatcher.get_matching_blocks: the longest block,
\* then the same to its left and to its right
Matches(a, b, alo, ahi, blo, bhi) ==
    LET m == find_longest_match(a, b, alo, ahi, blo, bhi)
    IN  IF m[3] = 0 THEN 0
        ELSE m[3] + Matches(a, b, alo, m[1], blo, m[2])
                  + Matches(a, b, m[1] + m[3], ahi, m[2] + m[3], bhi)

\* difflib._calculate_ratio
calculate_ratio(matches, length) ==
    IF length > 0 THEN <<2 * matches, length>> ELSE <<1, 1>>

\* SequenceMatcher.ratio
ratio(a, b) ==
    calculate_ratio(Matches(a, b, 0, Len(a), 0, Len(b)), Len(a) + Len(b))

\* the number of positions of s holding c
Count(s, c) == Cardinality({i \in 1..Len(s) : s[i] = c})

\* SequenceMatcher.quick_ratio: the multiset intersection of the elements
quick_ratio(a, b) ==
    LET chars == {a[i] : i \in 1..Len(a)}
        size(c) == Min(Count(a, c), Count(b, c))
        RECURSIVE Sum(_)
        Sum(S) == IF S = {} THEN 0
                  ELSE LET c == CHOOSE x \in S : TRUE
                       IN  size(c) + Sum(S \ {c})
    IN  calculate_ratio(Sum(chars), Len(a) + Len(b))

\* SequenceMatcher.real_quick_ratio
real_quick_ratio(a, b) ==
    calculate_ratio(Min(Len(a), Len(b)), Len(a) + Len(b))

\* r >= c and r > c on ratios
RatioGE(r, c) == r[1] * c[2] >= c[1] * r[2]
RatioGT(r, c) == r[1] * c[2] > c[1] * r[2]

\* cutoff=0.4 in suggest
Cutoff == <<2, 5>>

\* ScoredGreater comparing the scores only
ScoredGreater_scores_only(p, q) == RatioGT(p[1], q[1])

\* (score1, x1) > (score2, x2) on Python tuples
ScoredGreater(p, q) ==
    \/ RatioGT(p[1], q[1])
    \/ ~RatioGT(q[1], p[1]) /\ StrLess(q[2], p[2])

\* insert p into the descending list s of (score, x) tuples
InsertLargest(s, p) ==
    LET n == Cardinality({i \in 1..Len(s) : ScoredGreater(s[i], p)})
    IN  SubSeq(s, 1, n) \o <<p>> \o SubSeq(s, n + 1, Len(s))

RECURSIVE SortedLargest(_)
SortedLargest(s) ==
    IF s = <<>> THEN <<>>
    ELSE InsertLargest(SortedLargest(SubSeq(s, 1, Len(s) - 1)), s[Len(s)])

\* heapq.nlargest(n, result) = sorted(result, reverse=True)[:n]
nlargest(n, result) ==
    LET s == SortedLargest(result)
    IN  SubSeq(s, 1, Min(n, Len(s)))

\* the (score, x) list get_close_matches builds, in the order of possibilities
Scored(word, possibilities) ==
    LET keep(x) == /\ RatioGE(real_quick_ratio(x, word), Cutoff)
                   /\ RatioGE(quick_ratio(x, word), Cutoff)
                   /\ RatioGE(ratio(x, word), Cutoff)
        kept == SelectSeq(possibilities, keep)
    IN  [i \in 1..Len(kept) |-> <<ratio(kept[i], word), kept[i]>>]

\* difflib.get_close_matches(word, possibilities, n, cutoff=0.4), n > 0
get_close_matches(word, possibilities, n) ==
    LET best == nlargest(n, Scored(word, possibilities))
    IN  [i \in 1..Len(best) |-> best[i][2]]

----------------------------------------------------------------------------
(* agentv3.DictionaryAgent *)

\* define returning the value of the last key that matches, not the first
define_last_match(d, word, case_sensitive) ==
    LET key == IF case_sensitive THEN word ELSE Lower(word)
        hits == {i \in 1..Len(d) : Lower(d[i].k) = key}
    IN  IF case_sensitive THEN DictGet(d, key)
        ELSE IF hits = {} THEN None
        ELSE Some(d[CHOOSE i \in hits : \A j \in hits : i >= j].v)

\* define matching a key that starts with the word instead of equalling it
define_prefix_match(d, word, case_sensitive) ==
    LET key == IF case_sensitive THEN word ELSE Lower(word)
        hits == {i \in 1..Len(d) : StartsWith(Lower(d[i].k), key)}
    IN  IF case_sensitive THEN DictGet(d, key)
        ELSE IF hits = {} THEN None
        ELSE Some(d[CHOOSE i \in hits : \A j \in hits : i <= j].v)

\* define(word, case_sensitive): the value of the first key, in iteration
\* order, whose lower-cased form is the lower-cased word; exact get otherwise
define(d, word, case_sensitive) ==
    LET key == IF case_sensitive THEN word ELSE Lower(word)
        hits == {i \in 1..Len(d) : Lower(d[i].k) = key}
    IN  IF case_sensitive THEN DictGet(d, key)
        ELSE IF hits = {} THEN None
        ELSE Some(d[CHOOSE i \in hits : \A j \in hits : i <= j].v)

\* add that does not test overwrite
add_ignoring_overwrite(d, word, definition, overwrite) ==
    <<TRUE, DictSet(d, word, definition)>>

\* add(word, definition, overwrite): <<returned value, data afterwards>>
add(d, word, definition, overwrite) ==
    IF word \in Keys(d) /\ ~overwrite
    THEN <<FALSE, d>>
    ELSE <<TRUE, DictSet(d, word, definition)>>

\* remove that goes to the case-insensitive scan without trying the exact key
remove_scan_only(d, word) ==
    LET hits == {i \in 1..Len(d) : Lower(d[i].k) = Lower(word)}
    IN  IF hits = {} THEN <<FALSE, d>>
        ELSE <<TRUE, DictDel(d, d[CHOOSE i \in hits : \A j \in hits : i <= j].k)>>

\* remove(word): <<returned value, data afterwards>>
remove(d, word) ==
    LET hits == {i \in 1..Len(d) : Lower(d[i].k) = Lower(word)}
    IN  IF word \in Keys(d) THEN <<TRUE, DictDel(d, word)>>
        ELSE IF hits = {} THEN <<FALSE, d>>
        ELSE <<TRUE, DictDel(d, d[CHOOSE i \in hits : \A j \in hits : i <= j].k)>>

\* list without sorted()
list_unsorted(d, prefix) ==
    LET keys == KeyList(d)
        starts(k) == StartsWith(k, prefix.val)
    IN  IF prefix.some /\ prefix.val # <<>>
        THEN SelectSeq(keys, starts)
        ELSE keys

\* list(prefix): None and "" are both falsy and list every key
list(d, prefix) ==
    LET keys == Sorted(KeyList(d))
        starts(k) == StartsWith(k, prefix.val)
    IN  IF prefix.some /\ prefix.val # <<>>
        THEN SelectSeq(keys, starts)
        ELSE keys

\* suggest(query, max_results): get_close_matches raises ValueError unless n > 0
suggest(d, query, max_results) ==
    IF ~(max_results > 0)
    THEN [raised |-> "ValueError", ret |-> <<>>]
    ELSE [raised |-> "", ret |-> get_close_matches(query, KeyList(d), max_results)]

----------------------------------------------------------------------------
(* The JSON document of agent_ai_gen.  A JSON value is [type, val]; the     *)
(* Python value json.load returns for it is [t, v], t the Python type.      *)
(* The document is missing, unparsable, or holds one JSON value.            *)

JString(x) == [type |-> "string", val |-> x]
JNumber(n) == [type |-> "number", val |-> n]
JNull == [type |-> "null", val |-> 0]
JTrue == [type |-> "true", val |-> 0]
JArray(items) == [type |-> "array", val |-> items]
JObject(members) == [type |-> "object", val |-> members]

Missing == [kind |-> "missing", value |-> JNull]
Malformed == [kind |-> "malformed", value |-> JNull]
Json(value) == [kind |-> "json", value |-> value]

RECURSIVE DictFrom(_)
\* the dict built from a list of (key, value) pairs: a repeated key keeps
\* its first position and takes its last value
DictFrom(pairs) ==
    IF pairs = <<>> THEN <<>>
    ELSE DictSet(DictFrom(SubSeq(pairs, 1, Len(pairs) - 1)),
                 pairs[Len(pairs)].k, pairs[Len(pairs)].v)

RECURSIVE json_decode(_)
\* json.load on a parsable document: object -> dict (members in document
\* order), array -> list, string -> str, number -> int, null -> None, true -> True
json_decode(j) ==
    CASE j.type = "object" ->
            [t |-> "dict",
             v |-> DictFrom([i \in 1..Len(j.val) |->
                                Entry(j.val[i].k, json_decode(j.val[i].v))])]
      [] j.type = "array" ->
            [t |-> "list", v |-> [i \in 1..Len(j.val) |-> json_decode(j.val[i])]]
      [] j.type = "string" -> [t |-> "str", v |-> j.val]
      [] j.type = "number" -> [t |-> "int", v |-> j.val]
      [] j.type = "null" -> [t |-> "NoneType", v |-> 0]
      [] j.type = "true" -> [t |-> "bool", v |-> TRUE]

\* json.dump(self._dict, f, ensure_ascii=False, indent=2) on a dict of str to
\* str: an object with one string member per entry, in the order of the dict
json_dump(d) ==
    JObject([i \in 1..Len(d) |-> Entry(d[i].k, JString(d[i].v))])

Digits == <<"0", "1", "2", "3", "4", "5", "6", "7", "8", "9">>

RECURSIVE IntStr(_)
\* str(n) for an int n >= 0
IntStr(n) == IF n < 10 THEN Digits[n + 1]
             ELSE IntStr(n \div 10) \o Digits[(n % 10) + 1]

\* str(x) on the Python values a document can hold as a member
py_str(x) ==
    CASE x.t = "str" -> x.v
      [] x.t = "int" -> IF x.v < 0 THEN "-" \o IntStr(0 - x.v) ELSE IntStr(x.v)
      [] x.t = "NoneType" -> "None"
      [] x.t = "bool" -> IF x.v THEN "True" ELSE "False"
      [] x.t = "list" -> IF x.v = <<>> THEN "[]" ELSE "[...]"
      [] x.t = "dict" -> IF x.v = <<>> THEN "{}" ELSE "{...}"

----------------------------------------------------------------------------
(* agent_ai_gen.DictionaryAgent *)

RECURSIVE Update(_, _)
\* d.update(pairs)
Update(d, pairs) ==
    IF pairs = <<>> THEN d
    ELSE DictSet(Update(d, SubSeq(pairs, 1, Len(pairs) - 1)),
                 pairs[Len(pairs)].k, pairs[Len(pairs)].v)

\* load that merges the document into _dict instead of replacing _dict
load_merging(d, doc) ==
    IF doc.kind = "missing" THEN [raised |-> "", dict |-> d]
    ELSE IF doc.kind = "malformed" THEN [raised |-> "JSONDecodeError", dict |-> d]
    ELSE LET loaded == json_decode(doc.value)
         IN  IF loaded.t = "dict"
             THEN [raised |-> "",
                   dict |-> Update(d, [i \in 1..Len(loaded.v) |->
                                Entry(loaded.v[i].k, py_str(loaded.v[i].v))])]
             ELSE [raised |-> "", dict |-> d]

\* load with the isinstance test inverted
load_inverted_test(d, doc) ==
    IF doc.kind = "missing" THEN [raised |-> "", dict |-> <<>>]
    ELSE IF doc.kind = "malformed" THEN [raised |-> "JSONDecodeError", dict |-> d]
    ELSE LET loaded == json_decode(doc.value)
         IN  IF loaded.t # "dict"
             THEN [raised |-> "", dict |-> <<>>]
             ELSE [raised |-> "", dict |-> <<>>]

\* load(): [raised, dict], the exception leaving load and _dict afterwards.
\* Only FileNotFoundError is caught; what json.load raises on a document
\* that does not parse propagates, before any assignment to _dict.
load(d, doc) ==
    IF doc.kind = "missing" THEN [raised |-> "", dict |-> <<>>]
    ELSE IF doc.kind = "malformed" THEN [raised |-> "JSONDecodeError", dict |-> d]
    ELSE LET loaded == json_decode(doc.value)
         IN  IF loaded.t = "dict"
             THEN [raised |-> "",
                   dict |-> [i \in 1..Len(loaded.v) |->
                                Entry(loaded.v[i].k, py_str(loaded.v[i].v))]]
             ELSE [raised |-> "", dict |-> <<>>]

\* save(): [raised, document]; open(..., "w") raises OSError on a path that
\* cannot be written
save(d, doc, can_write) ==
    IF can_write THEN [raised |-> "", document |-> Json(json_dump(d))]
    ELSE [raised |-> "OSError", document |-> doc]

\* lookup(word)
lookup(d, word) == DictGet(d, word)

\* add(word, definition, overwrite) of agent_ai_gen: <<returned value, _dict afterwards>>
store_add(d, word, definition, overwrite) ==
    IF word \in Keys(d) /\ ~overwrite
    THEN <<FALSE, d>>
    ELSE <<TRUE, DictSet(d, word, definition)>>

\* remove(word) of agent_ai_gen: self._dict.pop(word, None) is not None
store_remove(d, word) ==
    IF word \in Keys(d) THEN <<TRUE, DictDel(d, word)>> ELSE <<FALSE, d>>

\* list_words(): a copy of the dict
list_words(d) == d

\* words and definitions passed to the agent_ai_gen agent
StoreWords == {w_cache, w_Cache}

\* documents another program may leave at storage_path
Documents ==
    << Missing, Malformed,
      Json(JArray(<<>>)), Json(JNumber(7)),
      Json(JObject(<<>>)),
      Json(JObject(<<Entry(w_ca, JString("d1")), Entry(w_ca, JString("d2"))>>)),
      Json(JObject(<<Entry(w_cache, JNumber(12)), Entry(w_ca, JString("d2"))>>)),
      Json(JObject(<<Entry(w_Cache, JNull)>>)) >>

AgentUnchanged == UNCHANGED <<data, last>>

\* DictionaryAgent(): a fresh store with an empty _dict
New ==
    /\ dict_' = <<>>
    /\ glast' = [op |-> "new"]
    /\ UNCHANGED <<document, written, writable>>
    /\ AgentUnchanged

Load ==
    /\ LET r == load(dict_, document)
       IN  /\ dict_' = r.dict
           /\ glast' = [op |-> "load", pre |-> dict_, doc |-> document,
                        fresh |-> (glast.op = "new"), raised |-> r.raised]
    /\ UNCHANGED <<document, written, writable>>
    /\ AgentUnchanged

Save ==
    /\ LET r == save(dict_, document, writable)
       IN  /\ document' = r.document
           /\ written' = IF r.raised = "" THEN Some(AsMap(dict_)) ELSE written
           /\ glast' = [op |-> "save", pre |-> dict_, doc |-> document,
                        raised |-> r.raised]
    /\ UNCHANGED <<dict_, writable>>
    /\ AgentUnchanged

Lookup(word) ==
    /\ glast' = [op |-> "lookup", word |-> word, pre |-> dict_,
                 ret |-> lookup(dict_, word)]
    /\ UNCHANGED <<dict_, document, written, writable>>
    /\ AgentUnchanged

StoreAdd(word, definition, overwrite) ==
    /\ word \in Keys(dict_) \/ Len(dict_) < MaxKeys
    /\ LET r == store_add(dict_, word, definition, overwrite)
       IN  /\ dict_' = r[2]
           /\ glast' = [op |-> "add", word |-> word, definition |-> definition,
                        overwrite |-> overwrite, pre |-> dict_, ret |-> r[1]]
    /\ UNCHANGED <<document, written, writable>>
    /\ AgentUnchanged

StoreRemove(word) ==
    /\ LET r == store_remove(dict_, word)
       IN  /\ dict_' = r[2]
           /\ glast' = [op |-> "remove", word |-> word, pre |-> dict_, ret |-> r[1]]
    /\ UNCHANGED <<document, written, writable>>
    /\ AgentUnchanged

ListWords ==
    /\ glast' = [op |-> "list_words", pre |-> dict_, ret |-> list_words(dict_)]
    /\ UNCHANGED <<dict_, document, written, writable>>
    /\ AgentUnchanged

\* another program replaces, corrupts or deletes the document
WriteDocument(doc) ==
    /\ document' = doc
    /\ written' = None
    /\ UNCHANGED <<dict_, glast, writable>>
    /\ AgentUnchanged

\* the path becomes writable or stops being writable
SetWritable(b) ==
    /\ writable # b
    /\ writable' = b
    /\ UNCHANGED <<dict_, document, written, glast>>
    /\ AgentUnchanged

StoreUnchanged == UNCHANGED <<dict_, document, written, writable, glast>>

Define(word, case_sensitive) ==
    /\ last' = [op |-> "define", word |-> word, case_sensitive |-> case_sensitive,
                pre |-> data, ret |-> define(data, word, case_sensitive)]
    /\ UNCHANGED data
    /\ StoreUnchanged

Add(word, definition, overwrite) ==
    /\ word \in Keys(data) \/ Len(data) < MaxKeys
    /\ LET r == add(data, word, definition, overwrite)
       IN  /\ data' = r[2]
           /\ last' = [op |-> "add", word |-> word, definition |-> definition,
                       overwrite |-> overwrite, pre |-> data, ret |-> r[1]]
    /\ StoreUnchanged

Remove(word) ==
    /\ LET r == remove(data, word)
       IN  /\ data' = r[2]
           /\ last' = [op |-> "remove", word |-> word, pre |-> data, ret |-> r[1]]
    /\ StoreUnchanged

List(prefix) ==
    /\ last' = [op |-> "list", prefix |-> prefix, pre |-> data,
                ret |-> list(data, prefix)]
    /\ UNCHANGED data
    /\ StoreUnchanged

Suggest(query, max_results) ==
    /\ LET r == suggest(data, query, max_results)
       IN  last' = [op |-> "suggest", word |-> query, max_results |-> max_results,
                    pre |-> data, ret |-> r.ret, raised |-> r.raised]
    /\ UNCHANGED data
    /\ StoreUnchanged

\* DictionaryAgent() has a copy of BUILT_IN_DICT as data, DictionaryAgent(data={})
\* starts empty; agent_ai_gen's DictionaryAgent() has an empty _dict
Init ==
    /\ data \in {BUILT_IN_DICT, <<>>}
    /\ last = [op |-> "init"]
    /\ dict_ = <<>>
    /\ document = [kind |-> "missing"]
    /\ written = None
    /\ writable = TRUE
    /\ glast = [op |-> "new"]

Next ==
    \/ \E w \in Words, cs \in BOOLEAN : Define(w, cs)
    \/ \E w \in AddWords, d \in AddDefs, o \in BOOLEAN : Add(w, d, o)
    \/ \E w \in Words : Remove(w)
    \/ \E p \in Prefixes : List(p)
    \/ \E q \in Queries, n \in MaxResultsValues : Suggest(q, n)

Spec == Init /\ [][Next]_vars

\* the agent_ai_gen agent and its document
NextStore ==
    \/ New
    \/ Load
    \/ Save
    \/ \E w \in StoreWords : Lookup(w)
    \/ \E w \in StoreWords, d \in AddDefs, o \in BOOLEAN : StoreAdd(w, d, o)
    \/ \E w \in StoreWords : StoreRemove(w)
    \/ ListWords
    \/ \E i \in 1..Len(Documents) : WriteDocument(Documents[i])
    \/ \E b \in BOOLEAN : SetWritable(b)

InitStore == Init /\ data = BUILT_IN_DICT

SpecStore == InitStore /\ [][NextStore]_vars

----------------------------------------------------------------------------
(* Properties of agentv3.DictionaryAgent, checked under Spec *)

\* C1: add(w, d2, overwrite=false) on an existing key returns false and
\* leaves the whole mapping unchanged; in every other case add returns true,
\* w then maps to the given definition and every other entry is unchanged.
AddContract ==
    last.op = "add" =>
        LET pre == last.pre
            w == last.word
        IN  IF w \in Keys(pre) /\ ~last.overwrite
            THEN last.ret = FALSE /\ data = pre
            ELSE /\ last.ret = TRUE
                 /\ Keys(data) = Keys(pre) \cup {w}
                 /\ Len(data) = Cardinality(Keys(data))
                 /\ AsMap(data)[w] = last.definition
                 /\ \A k \in Keys(pre) \ {w} : AsMap(data)[k] = AsMap(pre)[k]

\* an add without overwrite was refused on a key holding another definition
AddRefused ==
    /\ last.op = "add"
    /\ last.word \in Keys(last.pre)
    /\ ~last.overwrite
    /\ AsMap(last.pre)[last.word] # last.definition
    /\ last.ret = FALSE

\* C2 as stated: for every word that is not a key, lookup with its default
\* arguments returns None and remove returns false.
NotAKeyIsAbsent ==
    /\ (last.op = "define" /\ ~last.case_sensitive /\ last.word \notin Keys(last.pre))
            => ~last.ret.some
    /\ (last.op = "remove" /\ last.word \notin Keys(last.pre))
            => last.ret = FALSE

\* C2 as amended: for every word that equals no key after folding both to
\* lower case, lookup with its default arguments returns None and remove
\* returns false.
NoFoldedKeyIsAbsent ==
    LET unmatched == \A k \in Keys(last.pre) : Lower(k) # Lower(last.word)
    IN  /\ (last.op = "define" /\ ~last.case_sensitive /\ unmatched)
                => ~last.ret.some
        /\ (last.op = "remove" /\ unmatched)
                => last.ret = FALSE /\ data = last.pre

\* after "cache" was removed, a default lookup of "Cache" found nothing
LookupAfterRemoveAbsent ==
    /\ last.op = "define"
    /\ ~last.case_sensitive
    /\ last.word = w_Cache
    /\ last.pre # <<>>
    /\ \A k \in Keys(last.pre) : Lower(k) # Lower(last.word)
    /\ ~last.ret.some

\* C8: list(prefix) returns exactly the keys that start with prefix (all keys
\* without a prefix), each once, in ascending order whatever the insertion
\* order was, and leaves the mapping unchanged.
ListSortedPrefix ==
    last.op = "list" =>
        LET r == last.ret
            p == IF last.prefix.some THEN last.prefix.val ELSE <<>>
        IN  /\ {r[i] : i \in 1..Len(r)} = {k \in Keys(last.pre) : StartsWith(k, p)}
            /\ \A i, j \in 1..Len(r) : i < j => StrLess(r[i], r[j])
            /\ data = last.pre

\* list("ca") returned "ca" before "cache" although "ca" was inserted later
ListedOutOfInsertionOrder ==
    /\ last.op = "list"
    /\ last.prefix.some
    /\ last.prefix.val = w_ca
    /\ last.ret = <<w_ca, w_cache>>
    /\ w_Cache \in Keys(last.pre)
    /\ IndexOf(last.pre, w_cache) < IndexOf(last.pre, w_ca)

\* C9: define in default mode returns a definition iff some key equals the
\* word after folding both to lower case, and then the value of the first
\* such key in iteration order; in case-sensitive mode it returns the value
\* of the identical key and None otherwise; the mapping is unchanged.
DefineContract ==
    last.op = "define" =>
        LET pre == last.pre
            folded == {i \in 1..Len(pre) : Lower(pre[i].k) = Lower(last.word)}
        IN  /\ data = pre
            /\ ~last.case_sensitive =>
                    /\ last.ret.some <=> folded # {}
                    /\ last.ret.some =>
                          \E i \in folded : /\ \A j \in folded : i <= j
                                            /\ last.ret.val = pre[i].v
            /\ last.case_sensitive =>
                    /\ last.ret.some <=> last.word \in Keys(pre)
                    /\ last.ret.some => last.ret.val = AsMap(pre)[last.word]

\* a default lookup of "CACHE" returned the value of "Cache", stored before
\* "cache" with another definition
DefineTookFirstFolded ==
    /\ last.op = "define"
    /\ ~last.case_sensitive
    /\ last.word = w_CACHE
    /\ {w_cache, w_Cache} \subseteq Keys(last.pre)
    /\ IndexOf(last.pre, w_Cache) < IndexOf(last.pre, w_cache)
    /\ AsMap(last.pre)[w_Cache] # AsMap(last.pre)[w_cache]
    /\ last.ret.some
    /\ last.ret.val = AsMap(last.pre)[w_Cache]

\* C10: remove(w) removes exactly the entry of key w when w is a key, else
\* exactly the first key in iteration order equal to w under lower-case
\* folding, and returns true with every other entry unchanged; with no such
\* key it returns false and the mapping is unchanged.
RemoveContract ==
    last.op = "remove" =>
        LET pre == last.pre
            w == last.word
            folded == {i \in 1..Len(pre) : Lower(pre[i].k) = Lower(w)}
            gone == IF w \in Keys(pre) THEN {w}
                    ELSE {pre[i].k : i \in {m \in folded : \A j \in folded : m <= j}}
        IN  /\ last.ret = (gone # {})
            /\ Cardinality(gone) <= 1
            /\ Keys(data) = Keys(pre) \ gone
            /\ Len(data) = Cardinality(Keys(data))
            /\ \A k \in Keys(data) : AsMap(data)[k] = AsMap(pre)[k]

\* remove("cache") removed "cache" and kept "Cache", stored before it
RemovedExactKey ==
    /\ last.op = "remove"
    /\ last.word = w_cache
    /\ {w_cache, w_Cache} \subseteq Keys(last.pre)
    /\ IndexOf(last.pre, w_Cache) < IndexOf(last.pre, w_cache)
    /\ last.ret = TRUE
    /\ w_Cache \in Keys(data)
    /\ w_cache \notin Keys(data)

\* C6 as stated, for max_results > 0: suggest returns distinct keys, each at
\* or above the cutoff, no omitted key scoring strictly higher than a
\* returned one, in descending similarity with keys of equal similarity in
\* iteration order, min(max_results, keys at or above the cutoff) of them,
\* and leaves the mapping unchanged.
SuggestTiesInInputOrder ==
    (last.op = "suggest" /\ last.max_results > 0) =>
        LET pre == last.pre
            r == last.ret
            score == [k \in Keys(pre) |-> ratio(k, last.word)]
            above == {k \in Keys(pre) : RatioGE(score[k], Cutoff)}
            returned == {r[i] : i \in 1..Len(r)}
        IN  /\ last.raised = ""
            /\ returned \subseteq above
            /\ Cardinality(returned) = Len(r)
            /\ \A k \in Keys(pre) \ returned : \A x \in returned :
                    ~RatioGT(score[k], score[x])
            /\ \A i, j \in 1..Len(r) : i < j =>
                    /\ ~RatioGT(score[r[j]], score[r[i]])
                    /\ ~RatioGT(score[r[i]], score[r[j]])
                            => IndexOf(pre, r[i]) < IndexOf(pre, r[j])
            /\ Len(r) = Min(last.max_results, Cardinality(above))
            /\ data = pre

\* C6 as amended: as stated, but keys of equal similarity come in descending
\* order of the keys themselves, whatever their iteration order; and with
\* max_results <= 0 suggest raises ValueError, the mapping still unchanged.
SuggestTiesByDescendingKey ==
    last.op = "suggest" =>
        LET pre == last.pre
            r == last.ret
            score == [k \in Keys(pre) |-> ratio(k, last.word)]
            above == {k \in Keys(pre) : RatioGE(score[k], Cutoff)}
            returned == {r[i] : i \in 1..Len(r)}
        IN  /\ data = pre
            /\ last.max_results <= 0 => last.raised = "ValueError"
            /\ last.max_results > 0 =>
                 /\ last.raised = ""
                 /\ returned \subseteq above
                 /\ Cardinality(returned) = Len(r)
                 /\ \A k \in Keys(pre) \ returned : \A x \in returned :
                         ~RatioGT(score[k], score[x])
                 /\ \A i, j \in 1..Len(r) : i < j =>
                         /\ ~RatioGT(score[r[j]], score[r[i]])
                         /\ ~RatioGT(score[r[i]], score[r[j]])
                                 => StrLess(r[j], r[i])
                 /\ Len(r) = Min(last.max_results, Cardinality(above))

\* suggest("ath", 2) over keys where "algorithm", "cache" and "Cache" all
\* score 0.5 returned "cache" and then "algorithm", which iteration yields first
SuggestTieTruncated ==
    /\ last.op = "suggest"
    /\ last.word = w_ath
    /\ last.max_results = 2
    /\ {w_algorithm, w_cache, w_Cache} \subseteq Keys(last.pre)
    /\ IndexOf(last.pre, w_algorithm) < IndexOf(last.pre, w_cache)
    /\ last.ret = <<w_cache, w_algorithm>>

\* C7: suggest with max_results <= 0 returns an empty result and raises
\* nothing, for every query and key set, and suggest over an empty key set
\* returns an empty result for every query and every max_results.
SuggestEdgeCasesEmpty ==
    last.op = "suggest" =>
        /\ last.max_results <= 0 => (last.raised = "" /\ last.ret = <<>>)
        /\ last.pre = <<>> => (last.raised = "" /\ last.ret = <<>>)

----------------------------------------------------------------------------
(* Properties of agent_ai_gen.DictionaryAgent, checked under SpecStore *)

\* C1 on agent_ai_gen's add, the same code over _dict: refused on an existing
\* key without overwrite, the mapping unchanged; otherwise true, the word
\* mapped to the definition and every other entry unchanged.
StoreAddContract ==
    glast.op = "add" =>
        LET pre == glast.pre
            w == glast.word
        IN  IF w \in Keys(pre) /\ ~glast.overwrite
            THEN glast.ret = FALSE /\ dict_ = pre
            ELSE /\ glast.ret = TRUE
                 /\ Keys(dict_) = Keys(pre) \cup {w}
                 /\ Len(dict_) = Cardinality(Keys(dict_))
                 /\ AsMap(dict_)[w] = glast.definition
                 /\ \A k \in Keys(pre) \ {w} : AsMap(dict_)[k] = AsMap(pre)[k]

\* C3: load on a document that exists but does not parse, or is not a JSON
\* object, raises nothing and leaves _dict empty whatever it held before.
LoadOfBadDocumentEmpties ==
    (/\ glast.op = "load"
     /\ \/ glast.doc.kind = "malformed"
        \/ glast.doc.kind = "json" /\ glast.doc.value.type # "object")
        => (glast.raised = "" /\ dict_ = <<>>)

\* C4 as stated: after load the mapping equals exactly the contents of the
\* document when it exists and is a JSON object, and is empty when it does
\* not exist; load raises nothing in either case.
LoadReplacesWithContents ==
    glast.op = "load" =>
        /\ glast.doc.kind = "missing" => (glast.raised = "" /\ dict_ = <<>>)
        /\ (glast.doc.kind = "json" /\ glast.doc.value.type = "object") =>
              LET contents == json_decode(glast.doc.value).v
              IN  /\ glast.raised = ""
                  /\ Keys(dict_) = Keys(contents)
                  /\ Len(dict_) = Cardinality(Keys(dict_))
                  /\ \A i \in 1..Len(contents) :
                        /\ contents[i].v.t = "str"
                        /\ AsMap(dict_)[contents[i].k] = contents[i].v.v

\* C4 as amended: after load the mapping has exactly the keys of the
\* document, each with the str() form of the document's value (the value
\* itself when it is a string), when the document exists and is a JSON
\* object, and is empty when it does not exist; load raises nothing in
\* either case and no prior entry survives unless the document holds its key.
LoadReplacesWithStrOfContents ==
    glast.op = "load" =>
        /\ glast.doc.kind = "missing" => (glast.raised = "" /\ dict_ = <<>>)
        /\ (glast.doc.kind = "json" /\ glast.doc.value.type = "object") =>
              LET contents == json_decode(glast.doc.value).v
              IN  /\ glast.raised = ""
                  /\ Keys(dict_) = Keys(contents)
                  /\ Len(dict_) = Cardinality(Keys(dict_))
                  /\ \A i \in 1..Len(contents) :
                        /\ contents[i].v.t = "str"
                              => AsMap(dict_)[contents[i].k] = contents[i].v.v
                        /\ contents[i].v.t = "int"
                              => AsMap(dict_)[contents[i].k] = IntStr(contents[i].v.v)
                        /\ contents[i].v.t = "NoneType"
                              => AsMap(dict_)[contents[i].k] = "None"

\* load replaced a mapping holding "Cache" by a document holding the number 12
\* under "cache" and no "Cache"
LoadReplacedPriorEntries ==
    /\ glast.op = "load"
    /\ w_Cache \in Keys(glast.pre)
    /\ glast.doc.kind = "json"
    /\ glast.doc.value.type = "object"
    /\ Keys(dict_) = {w_cache, w_ca}
    /\ AsMap(dict_)[w_cache] = "12"

\* C5: save to a writable path followed by load of the same path in a fresh
\* store yields a mapping equal to the saved one, and save leaves the
\* saving store's mapping unchanged.
SaveLoadRoundTrip ==
    /\ (glast.op = "load" /\ glast.fresh /\ written.some)
            => (glast.raised = "" /\ AsMap(dict_) = written.val)
    /\ glast.op = "save" => dict_ = glast.pre

\* a fresh store loaded the two entries another store had saved
RoundTripOfTwoEntries ==
    /\ glast.op = "load"
    /\ glast.fresh
    /\ written.some
    /\ Keys(dict_) = {w_cache, w_Cache}
    /\ AsMap(dict_)[w_cache] # AsMap(dict_)[w_Cache]

====
